---- MODULE Spec2Model ----
(***************************************************************************)
(* Batched bulk load of CodexKeep: the two copies of insert_batch_to_db    *)
(* and process_items_in_batches (scripts/batch_processing.py and           *)
(* scripts/ckdb_initialization_script.py), the batch error log they write  *)
(* and the store connection they drive.                                    *)
(***************************************************************************)
EXTENDS Integers, Sequences, FiniteSets, TLC

(* ---------------- bounds of the model ---------------- *)
\* largest batch capacity explored (the scripts use 1000 / 2500)
MaxBatchSize == 2
\* records drawn from the record streams of all runs together
MaxRecords == 3

\* calls of insert_batch_to_db in which the connection raises
MaxFaults == 1

\* longest text of the BATCH_SIZE environment variable
MaxEnvLen == 3

VARIABLES
  variant,          \* which script is loaded: "bp" or "ckdb"
  BATCH_SIZE,       \* module constant BATCH_SIZE of the loaded script
  conn,             \* the conn argument of the running driver
  db,               \* the store behind the connection
  current_batch,    \* bp: local batch; ckdb: global current_batch
  batch_number,     \* bp: local batch_number; ckdb: global batch_number
  total_inserted,   \* ckdb: global total_inserted
  BATCH_ERRORS,     \* in-memory batch error list
  error_log_file,   \* lines appended to error_log.txt
  pc,               \* position of the driver
  summary,          \* number printed by the driver's last line
  taken,            \* records taken from the stream in this run
  calls,            \* history of insert_batch_to_db calls
  run,              \* number of driver runs started
  drawn,            \* records taken from the streams of all runs
  faults,           \* calls so far in which the connection raised
  store0            \* the table as it was when this run started

vars == <<variant, BATCH_SIZE, conn, db, current_batch, batch_number,
          total_inserted, BATCH_ERRORS, error_log_file, pc, summary, taken,
          calls, run, drawn, faults, store0>>

\* import of scripts/batch_processing.py
VARIABLES
  env,              \* the BATCH_SIZE environment variable: unset, or its text
  cfg_pc,           \* "start" before the import, "imported" after it
  cfg_capacity,     \* BATCH_SIZE as the import leaves it
  cfg_log           \* ERROR_LOG of error_handling after the import

cfgVars == <<env, cfg_pc, cfg_capacity, cfg_log>>

\* the import has not been modelled in this behaviour
CfgIdle ==
  /\ env = [set |-> FALSE]
  /\ cfg_pc = "start"
  /\ cfg_capacity = 0
  /\ cfg_log = <<>>

\* the __main__ blocks of scripts/ckdb_initialization_script.py
VARIABLES
  main_pc,          \* the statement of the __main__ blocks that runs next
  connections,      \* every connection psycopg2.connect returned, in order
  connection,       \* global connection: index into connections, 0 unbound
  db_conn,          \* global db_conn: index into connections, 0 unbound
  db_connection,    \* local of initialize_connections
  ERROR_LOG,        \* messages passed to log_error, in order
  batch_errors,     \* number of entries of BATCH_ERRORS
  validation_errors,\* validation_errors.txt: "absent" or "written"
  items_table,      \* global items_table: "unbound", "table" or "None"
  processed_items,  \* length of the global processed_items
  exiting,          \* a SystemExit is propagating through a finally clause
  exit_cause,       \* what ended or is ending the process, "" so far
  batch_phase       \* phase 4: "not run", "no batch", "committed", "failed"

mainVars == <<main_pc, connections, connection, db_conn, db_connection,
              ERROR_LOG, batch_errors, validation_errors, items_table,
              processed_items, exiting, exit_cause, batch_phase>>

\* the script has not been started in this behaviour
MainIdle ==
  /\ main_pc = "idle"
  /\ connections = <<>>
  /\ connection = 0
  /\ db_conn = 0
  /\ db_connection = 0
  /\ ERROR_LOG = <<>>
  /\ batch_errors = 0
  /\ validation_errors = "absent"
  /\ items_table = "unbound"
  /\ processed_items = 0
  /\ exiting = FALSE
  /\ exit_cause = ""
  /\ batch_phase = "not run"

\* the error log of error_handling.py and of ckdb_initialization_script.py
VARIABLES
  log_module,       \* whose functions are called: "error_handling" or "ckdb"
  log_ERROR_LOG,    \* the list ERROR_LOG of that module
  log_BATCH_ERRORS, \* the list BATCH_ERRORS (ckdb only)
  log_file          \* lines appended to error_log.txt in this run

logVars == <<log_module, log_ERROR_LOG, log_BATCH_ERRORS, log_file>>

\* nothing has been logged in this behaviour
LogIdle ==
  /\ log_module = "error_handling"
  /\ log_ERROR_LOG = <<>>
  /\ log_BATCH_ERRORS = <<>>
  /\ log_file = <<>>

\* data_processing.py feeding batch_processing.py (and the ckdb copies)
VARIABLES
  source_items,     \* the item definitions: <<key, item_data>> in dict order
  processed_items_list, \* what process_item_data returned
  processing_log,   \* entries process_item_data passed to log_error
  pipe_pc           \* "idle", "fetched" or "processed"

pipeVars == <<source_items, processed_items_list, processing_log, pipe_pc>>

\* no item definitions have been fetched in this behaviour
PipeIdle ==
  /\ source_items = <<>>
  /\ processed_items_list = <<>>
  /\ processing_log = <<>>
  /\ pipe_pc = "idle"

\* validate_all_items of validation.py and of ckdb_initialization_script.py
VARIABLES
  val_variant,      \* whose validate_all_items runs: "validation" or "ckdb"
  items_rows,       \* the rows of the Items table, in the order SELECT reads
  validation_report,\* validation_errors.txt: whether it exists, its lines
  val_ERROR_LOG,    \* entries passed to log_error in this process
  val_pc,           \* "idle", or how the last call ended
  val_last,         \* the last call: conn, rows read, invalid_rows, store calls
  val_runs          \* calls of validate_all_items so far

valVars == <<val_variant, items_rows, validation_report, val_ERROR_LOG,
             val_pc, val_last, val_runs>>

\* the validator has not been called in this behaviour
ValIdle ==
  /\ val_variant = "validation"
  /\ items_rows = <<>>
  /\ validation_report = [exists |-> FALSE, lines |-> <<>>]
  /\ val_ERROR_LOG = <<>>
  /\ val_pc = "idle"
  /\ val_last = [conn |-> "None", rows |-> <<>>, failed |-> FALSE,
                 invalid_rows |-> <<>>, logged |-> <<>>, ops |-> <<>>]
  /\ val_runs = 0

\* the loop of run_ck_setup.py
VARIABLES
  orch_pc,          \* "idle", "announce", "run", "child", "check", "done", "crashed"
  orch_index,       \* position of the loop variable script in scripts
  orch_result,      \* the CompletedProcess bound to result
  orch_started,     \* the scripts started so far, in order
  orch_exits,       \* the children that exited: return code and stderr
  orch_output       \* the lines the loop printed

orchVars == <<orch_pc, orch_index, orch_result, orch_started, orch_exits,
              orch_output>>

\* the orchestrator has not been started in this behaviour
OrchIdle ==
  /\ orch_pc = "idle"
  /\ orch_index = 1
  /\ orch_result = [returncode |-> 0, stderr |-> ""]
  /\ orch_started = <<>>
  /\ orch_exits = <<>>
  /\ orch_output = <<>>

(* ---------------- values ---------------- *)
None == "None"
Open == "Open"
NoError == "NoError"
DbError == "db error"
KeyError == "'name'"

\* a processed item as the transformer emits it
ItemA(k) == [item_id |-> k, name |-> "A", description |-> "dA",
             rarity |-> "Common", icon |-> "https://a"]
ItemB(k) == [item_id |-> k, name |-> "B", description |-> "dB",
             rarity |-> "Rare", icon |-> "https://b"]
\* an item whose dictionary has no "name" entry
ItemNoName(k) == [item_id |-> k, description |-> "dA",
                  rarity |-> "Common", icon |-> "https://a"]

\* the records the streams are drawn from: two keys, one key with two
\* different attribute sets, and one record that lacks a field
Items == {ItemA(1), ItemA(2), ItemB(1), ItemNoName(1)}

\* item["item_id"], item["name"], ... all evaluate without KeyError
HasAllFields(item) ==
  {"item_id", "name", "description", "rarity", "icon"} \subseteq DOMAIN item

\* the parameter tuple of the INSERT statement
Row(item) == [ItemID |-> item.item_id, Name |-> item.name,
              Description |-> item.description, Rarity |-> item.rarity,
              ImageURL |-> item.icon]

\* the Items table: a function from the ItemID values present to their rows
EmptyTable == [k \in {} |-> 0]

(* ---------------- the store ---------------- *)
\* INSERT ... ON CONFLICT (ItemID) DO UPDATE: what an overwriting upsert does
InsertOverwrite(table, row) ==
  [k \in DOMAIN table \cup {row.ItemID} |->
     IF k = row.ItemID THEN row ELSE table[k]]

\* INSERT ... ON CONFLICT (ItemID) DO NOTHING
InsertOnConflictDoNothing(table, row) ==
  IF row.ItemID \in DOMAIN table THEN table
  ELSE [k \in DOMAIN table \cup {row.ItemID} |->
          IF k = row.ItemID THEN row ELSE table[k]]

RECURSIVE ApplyRows(_, _)
ApplyRows(table, rows) ==
  IF rows = <<>> THEN table
  ELSE ApplyRows(InsertOnConflictDoNothing(table, Head(rows)), Tail(rows))

\* conn.commit(): every statement of the open transaction becomes durable
Commit(d) == [d EXCEPT !.store = ApplyRows(d.store, d.pending),
                       !.pending = <<>>]

\* conn.rollback(): discards the open transaction; it raises when the
\* connection is lost (the server then aborts the transaction itself)
Rollback(d, rbFail) ==
  IF d.broken \/ rbFail
  THEN [db |-> [d EXCEPT !.pending = <<>>, !.broken = TRUE], raised |-> TRUE]
  ELSE [db |-> [d EXCEPT !.pending = <<>>], raised |-> FALSE]

\* where the connection raises during one call
Faults(batch) ==
  {[op |-> "none", idx |-> 0], [op |-> "cursor", idx |-> 0],
   [op |-> "commit", idx |-> 0]}
    \cup {[op |-> "execute", idx |-> i] : i \in 1..Len(batch)}

(* ---------------- the error log ---------------- *)
Entry(num, prefix, err) == [batch |-> num, prefix |-> prefix, err |-> err]

\* log_batch_error that forgets the entry
log_batch_error_bp_drop(logs, num, prefix, err) == logs

\* error_handling.log_batch_error: in-memory list only
log_batch_error_bp(logs, num, prefix, err) ==
  [mem |-> Append(logs.mem, Entry(num, prefix, err)), file |-> logs.file]

\* ckdb log_batch_error: BATCH_ERRORS and the log file
log_batch_error_ckdb(logs, num, prefix, err) ==
  [mem |-> Append(logs.mem, Entry(num, prefix, err)),
   file |-> Append(logs.file, Entry(num, prefix, err))]

(* ---------------- insert_batch_to_db ---------------- *)
\* the for loop over the batch, from record i on: the parameter tuple is
\* built first (KeyError on a missing field), then cur.execute runs
RECURSIVE ExecuteItems(_, _, _, _)
ExecuteItems(batch, i, pend, fault) ==
  IF i > Len(batch)
  THEN [pending |-> pend, err |-> NoError, ops |-> <<>>]
  ELSE IF ~HasAllFields(batch[i])
  THEN [pending |-> pend, err |-> KeyError, ops |-> <<>>]
  ELSE IF fault = [op |-> "execute", idx |-> i]
  THEN [pending |-> pend, err |-> DbError, ops |-> <<"execute">>]
  ELSE LET r == ExecuteItems(batch, i + 1, Append(pend, Row(batch[i])), fault)
       IN  [r EXCEPT !.ops = <<"execute">> \o @]

\* the body of the try block up to and including conn.commit()
TryInsert(d, batch, fault) ==
  IF d.broken \/ fault.op = "cursor"
  THEN [db |-> d, err |-> DbError, ops |-> <<"cursor">>]
  ELSE LET ex == ExecuteItems(batch, 1, d.pending, fault)
           d1 == [d EXCEPT !.pending = ex.pending]
       IN  IF ex.err # NoError
           THEN [db |-> d1, err |-> ex.err, ops |-> <<"cursor">> \o ex.ops]
           ELSE IF fault.op = "commit"
           THEN [db |-> d1, err |-> DbError,
                 ops |-> <<"cursor">> \o ex.ops \o <<"commit">>]
           ELSE [db |-> Commit(d1), err |-> NoError,
                 ops |-> <<"cursor">> \o ex.ops \o <<"commit">>]

\* insert_batch_to_db without the return after the None check: the call
\* goes on into the try block, conn.cursor() raises, the handler logs again
\* and conn.rollback() raises out of the call
insert_batch_to_db_bp_noreturn(c, d, logs, batch, num, fault, rbFail) ==
  IF c = None
  THEN [db |-> d, raised |-> TRUE, outcome |-> "noconn", err |-> NoError,
        logs |-> log_batch_error_bp(
                   log_batch_error_bp(logs, num,
                                      "Database connection is None.", ""),
                   num, "Failed to insert batch: ", "AttributeError"),
        ops |-> <<"log", "log">>, inserted |-> 0, cleared |-> FALSE]
  ELSE LET t == TryInsert(d, batch, fault)
       IN  IF t.err = NoError
           THEN [db |-> t.db, raised |-> FALSE, outcome |-> "committed",
                 err |-> NoError, logs |-> logs, ops |-> t.ops,
                 inserted |-> 0, cleared |-> FALSE]
           ELSE LET rb == Rollback(t.db, rbFail)
                IN  [db |-> rb.db, raised |-> rb.raised,
                     outcome |-> "failed", err |-> t.err,
                     logs |-> log_batch_error_bp(logs, num,
                                "Failed to insert batch: ", t.err),
                     ops |-> t.ops \o <<"log", "rollback">>,
                     inserted |-> 0, cleared |-> FALSE]

\* insert_batch_to_db whose handler rolls back only when the error came
\* before the commit
insert_batch_to_db_bp_commit_norollback(c, d, logs, batch, num, fault, rbFail) ==
  IF c = None
  THEN [db |-> d, raised |-> FALSE, outcome |-> "noconn", err |-> NoError,
        logs |-> log_batch_error_bp(logs, num,
                                    "Database connection is None.", ""),
        ops |-> <<"log">>, inserted |-> 0, cleared |-> FALSE]
  ELSE LET t == TryInsert(d, batch, fault)
       IN  IF t.err = NoError
           THEN [db |-> t.db, raised |-> FALSE, outcome |-> "committed",
                 err |-> NoError, logs |-> logs, ops |-> t.ops,
                 inserted |-> 0, cleared |-> FALSE]
           ELSE IF fault.op = "commit"
           THEN [db |-> t.db, raised |-> FALSE, outcome |-> "failed",
                 err |-> t.err,
                 logs |-> log_batch_error_bp(logs, num,
                            "Failed to insert batch: ", t.err),
                 ops |-> t.ops \o <<"log">>,
                 inserted |-> 0, cleared |-> FALSE]
           ELSE LET rb == Rollback(t.db, rbFail)
                IN  [db |-> rb.db, raised |-> rb.raised,
                     outcome |-> "failed", err |-> t.err,
                     logs |-> log_batch_error_bp(logs, num,
                                "Failed to insert batch: ", t.err),
                     ops |-> t.ops \o <<"log", "rollback">>,
                     inserted |-> 0, cleared |-> FALSE]

\* scripts/batch_processing.py insert_batch_to_db
insert_batch_to_db_bp(c, d, logs, batch, num, fault, rbFail) ==
  IF c = None
  THEN [db |-> d, raised |-> FALSE, outcome |-> "noconn", err |-> NoError,
        logs |-> log_batch_error_bp(logs, num,
                                    "Database connection is None.", ""),
        ops |-> <<"log">>, inserted |-> 0, cleared |-> FALSE]
  ELSE LET t == TryInsert(d, batch, fault)
       IN  IF t.err = NoError
           THEN [db |-> t.db, raised |-> FALSE, outcome |-> "committed",
                 err |-> NoError, logs |-> logs, ops |-> t.ops,
                 inserted |-> 0, cleared |-> FALSE]
           ELSE LET rb == Rollback(t.db, rbFail)
                IN  [db |-> rb.db, raised |-> rb.raised,
                     outcome |-> "failed", err |-> t.err,
                     logs |-> log_batch_error_bp(logs, num,
                                "Failed to insert batch: ", t.err),
                     ops |-> t.ops \o <<"log", "rollback">>,
                     inserted |-> 0, cleared |-> FALSE]

\* scripts/ckdb_initialization_script.py insert_batch_to_db; cleared tells
\* whether the finally clause ran current_batch.clear()
insert_batch_to_db_ckdb(c, d, logs, batch, num, fault, rbFail) ==
  IF c = None
  THEN [db |-> d, raised |-> FALSE, outcome |-> "noconn", err |-> NoError,
        logs |-> log_batch_error_ckdb(logs, num,
                                      "Database connection is None.", ""),
        ops |-> <<"log">>, inserted |-> 0, cleared |-> FALSE]
  ELSE LET t == TryInsert(d, batch, fault)
       IN  IF t.err = NoError
           THEN [db |-> t.db, raised |-> FALSE, outcome |-> "committed",
                 err |-> NoError, logs |-> logs, ops |-> t.ops,
                 inserted |-> Len(batch), cleared |-> TRUE]
           ELSE IF t.err = DbError
           THEN LET rb == Rollback(t.db, rbFail)
                IN  [db |-> rb.db, raised |-> rb.raised,
                     outcome |-> "failed", err |-> t.err,
                     logs |-> log_batch_error_ckdb(logs, num,
                                "Database error: ", t.err),
                     ops |-> t.ops \o <<"log", "rollback">>,
                     inserted |-> 0, cleared |-> TRUE]
           ELSE [db |-> t.db, raised |-> FALSE, outcome |-> "failed",
                 err |-> t.err,
                 logs |-> log_batch_error_ckdb(logs, num,
                            "Unexpected error during batch insertion: ",
                            t.err),
                 ops |-> t.ops \o <<"log">>,
                 inserted |-> 0, cleared |-> TRUE]

insert_batch_to_db(v, c, d, logs, batch, num, fault, rbFail) ==
  IF v = "bp" THEN insert_batch_to_db_bp(c, d, logs, batch, num, fault, rbFail)
  ELSE insert_batch_to_db_ckdb(c, d, logs, batch, num, fault, rbFail)

(* ---------------- process_items_in_batches ---------------- *)
\* the module state after import: empty buffer, counters at 0.  BATCH_SIZE
\* is 2500 in ckdb_initialization_script.py and the BATCH_SIZE environment
\* value (default 1000) in batch_processing.py; the model explores the
\* capacities 1..MaxBatchSize
Init ==
  /\ variant \in {"bp", "ckdb"}
  /\ BATCH_SIZE \in 1..MaxBatchSize
  /\ conn = None
  /\ db = [store |-> EmptyTable, pending |-> <<>>, broken |-> FALSE]
  /\ current_batch = <<>>
  /\ batch_number = 0
  /\ total_inserted = 0
  /\ BATCH_ERRORS = <<>>
  /\ error_log_file = <<>>
  /\ pc = "idle"
  /\ summary = 0
  /\ taken = <<>>
  /\ calls = <<>>
  /\ run = 0
  /\ drawn = 0
  /\ faults = 0
  /\ store0 = EmptyTable

\* the state after one call insert_batch_to_db(conn, batch, num); the bp
\* driver clears its local list after a call that returned
Submit(batch, num, fault, rbFail, last) ==
  LET r == insert_batch_to_db(variant, conn, db,
                              [mem |-> BATCH_ERRORS, file |-> error_log_file],
                              batch, num, fault, rbFail)
      \* the driver's list after the call: bp runs batch.clear() after a
      \* call made in the loop returns; ckdb relies on the callee's finally
      buffer == IF variant = "bp"
                THEN (IF r.raised \/ last THEN batch ELSE <<>>)
                ELSE (IF r.cleared THEN <<>> ELSE batch)
      injected == fault.op # "none" \/ rbFail
  IN  \* a fault is drawn only where the call reaches the operation
      /\ (conn = None \/ db.broken) => ~injected
      /\ fault.op # "none" => r.err = DbError
      /\ rbFail => \E i \in 1..Len(r.ops) : r.ops[i] = "rollback"
      /\ injected => faults < MaxFaults
      /\ faults' = IF injected THEN faults + 1 ELSE faults
      /\ db' = r.db
      /\ BATCH_ERRORS' = r.logs.mem
      /\ error_log_file' = r.logs.file
      /\ total_inserted' = total_inserted + r.inserted
      /\ batch_number' = num
      /\ current_batch' = buffer
      /\ calls' = Append(calls,
           [run |-> run, num |-> num, batch |-> batch, conn |-> conn,
            trailing |-> last, outcome |-> r.outcome, err |-> r.err,
            raised |-> r.raised, ops |-> r.ops, before |-> db,
            after |-> r.db,
            logged |-> SubSeq(r.logs.mem, Len(BATCH_ERRORS) + 1,
                              Len(r.logs.mem)),
            buffer |-> buffer])
      /\ pc' = IF r.raised THEN "raised" ELSE IF last THEN "done" ELSE "loop"
      /\ summary' = IF r.raised \/ ~last THEN summary
                    ELSE IF variant = "bp" THEN num
                    ELSE total_inserted + r.inserted

\* entry of process_items_in_batches(conn, items)
Enter(c) ==
  /\ run' = run + 1
  /\ conn' = c
  /\ pc' = "loop"
  /\ taken' = <<>>
  /\ store0' = db.store
  /\ IF variant = "bp"
     THEN current_batch' = <<>> /\ batch_number' = 0
     ELSE UNCHANGED <<current_batch, batch_number>>
  /\ UNCHANGED <<variant, BATCH_SIZE, db, total_inserted, BATCH_ERRORS,
                 error_log_file, summary, calls, drawn, faults>>

\* what the batch load leaves alone
LoadFrame ==
  UNCHANGED <<cfgVars, mainVars, logVars, pipeVars, valVars, orchVars>>

\* the first call of the driver in the process
Start(c) == pc = "idle" /\ run = 0 /\ Enter(c) /\ LoadFrame

\* the driver called a second time in the same process, after the first
\* call returned or raised
Rerun(c) ==
  pc \in {"done", "raised"} /\ run = 1 /\ Enter(c) /\ LoadFrame

\* one iteration of "for item in items"
Iterate(item, fault, rbFail) ==
  /\ pc = "loop"
  /\ drawn < MaxRecords
  /\ drawn' = drawn + 1
  /\ taken' = Append(taken, item)
  /\ LET batch == Append(current_batch, item)
     IN  IF Len(batch) >= BATCH_SIZE
         THEN /\ fault \in Faults(batch)
              /\ Submit(batch, batch_number + 1, fault, rbFail, FALSE)
         ELSE /\ fault.op = "none" /\ ~rbFail
              /\ current_batch' = batch
              /\ UNCHANGED <<db, BATCH_ERRORS, error_log_file, total_inserted,
                             batch_number, calls, pc, summary, faults>>
  /\ UNCHANGED <<variant, BATCH_SIZE, conn, run, store0>>

\* the stream is exhausted: the trailing batch and the summary line
Exhaust(fault, rbFail) ==
  /\ pc = "loop"
  /\ IF current_batch # <<>>
     THEN /\ fault \in Faults(current_batch)
          /\ Submit(current_batch, batch_number + 1, fault, rbFail, TRUE)
     ELSE /\ fault.op = "none" /\ ~rbFail
          /\ pc' = "done"
          /\ summary' = IF variant = "bp" THEN batch_number
                        ELSE total_inserted
          /\ UNCHANGED <<db, BATCH_ERRORS, error_log_file, total_inserted,
                         batch_number, calls, current_batch, faults>>
  /\ UNCHANGED <<variant, BATCH_SIZE, conn, run, store0, taken, drawn>>

\* the driver's steps with the record stream drawn record by record
Step(item, fault, rbFail) == Iterate(item, fault, rbFail) /\ LoadFrame

Finish(fault, rbFail) == Exhaust(fault, rbFail) /\ LoadFrame

AllFaults == {[op |-> "none", idx |-> 0], [op |-> "cursor", idx |-> 0],
              [op |-> "commit", idx |-> 0]}
               \cup {[op |-> "execute", idx |-> i] : i \in 1..MaxRecords}

Next ==
  \/ \E c \in {None, Open} : Start(c)
  \/ \E c \in {None, Open} : Rerun(c)
  \/ \E item \in Items, fault \in AllFaults, rbFail \in BOOLEAN :
       Step(item, fault, rbFail)
  \/ \E fault \in AllFaults, rbFail \in BOOLEAN : Finish(fault, rbFail)

allVars == <<vars, cfgVars, mainVars, logVars, pipeVars, valVars, orchVars>>

\* the batch load alone: nothing else of the process is running
LoadInit == Init /\ CfgIdle /\ MainIdle /\ LogIdle /\ PipeIdle /\ ValIdle
  /\ OrchIdle

\* the batch load at rest, for the behaviours of the other parts
LoadIdle == Init /\ variant = "bp" /\ BATCH_SIZE = 1

Spec == LoadInit /\ [][Next]_allVars

(* ---------------- reading the call history ---------------- *)
RECURSIVE CallsOf(_, _)
\* the calls of history h made by driver run r, in order
CallsOf(h, r) ==
  IF h = <<>> THEN <<>>
  ELSE IF Head(h).run = r THEN <<Head(h)>> \o CallsOf(Tail(h), r)
  ELSE CallsOf(Tail(h), r)

ThisRun == CallsOf(calls, run)

RECURSIVE RowsOf(_)
RowsOf(batch) ==
  IF batch = <<>> THEN <<>> ELSE <<Row(Head(batch))>> \o RowsOf(Tail(batch))

RECURSIVE CommittedRows(_)
\* the rows of the committed batches of history h, in commit order
CommittedRows(h) ==
  IF h = <<>> THEN <<>>
  ELSE IF Head(h).outcome = "committed"
  THEN RowsOf(Head(h).batch) \o CommittedRows(Tail(h))
  ELSE CommittedRows(Tail(h))

RECURSIVE NotCommitted(_)
NotCommitted(h) ==
  IF h = <<>> THEN <<>>
  ELSE IF Head(h).outcome # "committed"
  THEN <<Head(h)>> \o NotCommitted(Tail(h))
  ELSE NotCommitted(Tail(h))

RECURSIVE SumLen(_)
SumLen(h) == IF h = <<>> THEN 0 ELSE Len(Head(h).batch) + SumLen(Tail(h))

RECURSIVE SumCommitted(_)
SumCommitted(h) ==
  IF h = <<>> THEN 0
  ELSE (IF Head(h).outcome = "committed" THEN Len(Head(h).batch) ELSE 0)
         + SumCommitted(Tail(h))

Ceil(n, c) == (n + c - 1) \div c

Has(opsSeq, name) == \E i \in 1..Len(opsSeq) : opsSeq[i] = name

AllCommitted(h) == \A i \in 1..Len(h) : h[i].outcome = "committed"

(* ---------------- C1 ---------------- *)
\* C1: per-batch atomicity. The table holds exactly what the committed
\* batches inserted, in commit order: no row issued by a batch that raised
\* in an execute or at commit is in the table, also after later batches
\* commit on the same connection.
C1_Atomicity == db.store = ApplyRows(EmptyTable, CommittedRows(calls))

(* ---------------- C2 ---------------- *)
\* C2: every batch passed to insert_batch_to_db has 0 < len <= BATCH_SIZE,
\* whatever the connection value.
C2_BatchSizeBound ==
  \A i \in 1..Len(calls) :
    0 < Len(calls[i].batch) /\ Len(calls[i].batch) <= BATCH_SIZE

(* ---------------- C3 ---------------- *)
\* C3: a failure inside insert_batch_to_db (execute, commit, or the rollback
\* that follows) is never fatal to the driver, so the later batches are
\* still submitted, and the rows committed earlier stay in the table.
C3_Isolation ==
  /\ pc # "raised"
  /\ \A i \in 1..Len(calls) :
       calls[i].outcome = "committed" =>
         \A j \in 1..Len(calls[i].batch) :
           calls[i].batch[j].item_id \in DOMAIN db.store

(* ---------------- C4 ---------------- *)
\* C4: a second run whose records all carry keys already in the table, with
\* no batch failure in either run, leaves the table exactly as the first run
\* left it: same rows, each with its original name, description, rarity and
\* icon.
SecondRunOfKnownKeys ==
  /\ run = 2 /\ pc = "done"
  /\ AllCommitted(calls)
  /\ \A i \in 1..Len(taken) : taken[i].item_id \in DOMAIN store0

C5_BatchCount ==
  pc = "done" =>
    /\ Len(ThisRun) = Ceil(Len(taken), BATCH_SIZE)
    /\ variant = "bp" => summary = Ceil(Len(taken), BATCH_SIZE)

(* ---------------- C6 ---------------- *)
\* C6: the batch error log is, in order, one entry per call that did not
\* commit, with that call's batch number and its error text, and nothing
\* else.
EntryMatches(e, c) ==
  /\ e.batch = c.num
  /\ IF c.outcome = "noconn"
     THEN e.prefix = "Database connection is None."
     ELSE e.err = c.err /\ c.err # NoError

C7_RowsCommittedTotal ==
  (variant = "ckdb" /\ pc = "done") =>
    /\ total_inserted = SumCommitted(ThisRun)
    /\ SumLen(ThisRun) <= Len(taken)

(* ---------------- C8 ---------------- *)
\* C8: a call with no connection logs one entry for its batch number, calls
\* none of cursor, execute, commit, rollback, and leaves the store as it was.
C8_AbsentConnection ==
  \A i \in 1..Len(calls) :
    calls[i].conn = None =>
      /\ calls[i].ops = <<"log">>
      /\ Len(calls[i].logged) = 1
      /\ calls[i].logged[1].batch = calls[i].num
      /\ calls[i].after = calls[i].before
      /\ ~calls[i].raised

C8_Witness ==
  \E i \in 1..Len(calls) :
    /\ calls[i].conn = None
    /\ calls[i].before.store # EmptyTable
    /\ calls[i].logged # <<>>

(* ---------------- C9 ---------------- *)
\* C9: a driver started with a None connection fails before it takes a
\* record from the stream or submits a batch.
C9_FailFast ==
  (run > 0 /\ conn = None) =>
    /\ taken = <<>>
    /\ ThisRun = <<>>
    /\ pc # "done"

(* ---------------- C10 ---------------- *)
\* C10: after a full batch was submitted from the loop and the call
\* returned, the buffer is empty when the driver appends the next record.
C10_BufferCleared ==
  \A i \in 1..Len(calls) :
    (~calls[i].trailing /\ ~calls[i].raised) => calls[i].buffer = <<>>

(* ---------------- C11 ---------------- *)
RECURSIVE ConcatBatches(_)
ConcatBatches(h) ==
  IF h = <<>> THEN <<>> ELSE Head(h).batch \o ConcatBatches(Tail(h))

\* C11: at the end of a run the submitted batches, concatenated in batch
\* order, are exactly the records taken from the stream, in arrival order.
C11_ArrivalOrderPartition ==
  pc = "done" => ConcatBatches(ThisRun) = taken

(* ---------------- C13 ---------------- *)
\* C13: when insert_batch_to_db returns to the driver, the connection has no
\* open transaction: every statement of the batch was committed or rolled
\* back.
C13_TransactionResolved ==
  \A i \in 1..Len(calls) :
    ~calls[i].raised => calls[i].after.pending = <<>>

(* ---------------- C16 ---------------- *)
\* C16: every call of process_items_in_batches starts with batch number 0,
\* a rows-committed total of 0 and an empty buffer.
JustEntered == pc = "loop" /\ taken = <<>>

C16_CountersPerRun ==
  JustEntered =>
    batch_number = 0 /\ total_inserted = 0 /\ current_batch = <<>>

(* ---------------- import of batch_processing.py ---------------- *)
\* the characters an environment text is made of in the model
EnvChars == {" ", "-", "0", "2", "x"}

EnvTexts == UNION {[1..n -> EnvChars] : n \in 0..MaxEnvLen}

Digits == {"0", "1", "2"}
DigitValue(ch) == IF ch = "0" THEN 0 ELSE IF ch = "1" THEN 1 ELSE 2

RECURSIVE Strip(_)
\* str.strip() as int() applies it: leading and trailing blanks removed
Strip(t) ==
  IF t = <<>> THEN t
  ELSE IF Head(t) = " " THEN Strip(Tail(t))
  ELSE IF t[Len(t)] = " " THEN Strip(SubSeq(t, 1, Len(t) - 1))
  ELSE t

RECURSIVE DecimalValue(_)
DecimalValue(t) ==
  IF t = <<>> THEN 0
  ELSE DecimalValue(SubSeq(t, 1, Len(t) - 1)) * 10 + DigitValue(t[Len(t)])

\* int(text): blanks stripped, an optional sign, then one or more digits;
\* anything else raises ValueError
ParseInt(text) ==
  LET t == Strip(text)
      neg == t # <<>> /\ Head(t) = "-"
      body == IF neg THEN Tail(t) ELSE t
  IN  IF body # <<>> /\ \A i \in 1..Len(body) : body[i] \in Digits
      THEN [ok |-> TRUE,
            value |-> IF neg THEN 0 - DecimalValue(body)
                      ELSE DecimalValue(body)]
      ELSE [ok |-> FALSE, value |-> 0]

\* the second argument of os.getenv("BATCH_SIZE", "1000")
DefaultText == <<"1", "0", "0", "0">>

\* the value assigned in the except branch
DefaultBatchSize == 1000

\* lines 6-12: BATCH_SIZE = int(os.getenv("BATCH_SIZE", "1000")); a
\* ValueError from int() or from the <= 0 test logs and falls back to 1000
ImportBatchSize(e) ==
  LET p == ParseInt(IF e.set THEN e.text ELSE DefaultText)
  IN  IF p.ok /\ p.value > 0
      THEN [capacity |-> p.value, log |-> <<>>]
      ELSE [capacity |-> DefaultBatchSize,
            log |-> log_batch_error_bp([mem |-> <<>>, file |-> <<>>], 0,
                      "Invalid BATCH_SIZE value: ",
                      "Defaulting to 1000.").mem]

CfgInit ==
  /\ env \in {[set |-> FALSE]} \cup {[set |-> TRUE, text |-> t] : t \in EnvTexts}
  /\ cfg_pc = "start"
  /\ cfg_capacity = 0
  /\ cfg_log = <<>>

Import ==
  /\ cfg_pc = "start"
  /\ cfg_pc' = "imported"
  /\ cfg_capacity' = ImportBatchSize(env).capacity
  /\ cfg_log' = ImportBatchSize(env).log
  /\ UNCHANGED <<env, vars, mainVars, logVars, pipeVars, valVars, orchVars>>

CfgNext == Import

ConfigInit == LoadIdle /\ CfgInit /\ MainIdle /\ LogIdle /\ PipeIdle /\ ValIdle
  /\ OrchIdle

SpecConfig == ConfigInit /\ [][CfgNext]_allVars

(* ---------------- C12 ---------------- *)
\* the configured value is a positive integer
PositiveInteger(e) ==
  e.set /\ ParseInt(e.text).ok /\ ParseInt(e.text).value > 0

\* C12: when BATCH_SIZE is unset, not an integer or not positive the
\* capacity is 1000 and a warning entry is logged; when it is a positive
\* integer the capacity is that value and nothing is logged.
C12_CapacityFallback ==
  cfg_pc = "imported" =>
    IF PositiveInteger(env)
    THEN cfg_capacity = ParseInt(env.text).value /\ cfg_log = <<>>
    ELSE cfg_capacity = DefaultBatchSize /\ Len(cfg_log) = 1

(* ---------------- __main__ of ckdb_initialization_script.py ---------------- *)
\* most records process_item_data hands to phase 4
MaxProcessed == 2

\* what a request to the Bungie API comes back with
ApiOutcomes == {"200", "401", "other", "exception"}

\* psycopg2.connect succeeded: one more open connection, its index returned
Connected == Append(connections, [open |-> TRUE])

\* connection.close() on the object a name refers to
Close(i) == [connections EXCEPT ![i].open = FALSE]

\* what the script leaves alone while main runs
MainFrame == UNCHANGED <<vars, cfgVars, logVars, pipeVars, valVars, orchVars>>

\* load_env_variables, called by initialize_connections in phases 1 and 3:
\* a missing variable ends the process with sys.exit(1)
LoadEnv(ok) ==
  /\ main_pc \in {"p1_env", "p3_env"}
  /\ main_pc' = IF ~ok THEN "exited"
                ELSE IF main_pc = "p1_env" THEN "p1_connect" ELSE "p3_connect"
  /\ UNCHANGED <<connections, connection, db_conn, db_connection, ERROR_LOG,
                 batch_errors, validation_errors, items_table, processed_items, exiting>>
  /\ exit_cause' = IF ok THEN exit_cause ELSE "environment"
  /\ UNCHANGED batch_phase
  /\ MainFrame

\* db_connection = connect_to_db() in initialize_connections: an
\* OperationalError ends the process with sys.exit(1)
ConnectInit(ok) ==
  /\ main_pc \in {"p1_connect", "p3_connect"}
  /\ IF ok
     THEN /\ connections' = Connected
          /\ db_connection' = Len(connections) + 1
          /\ main_pc' = IF main_pc = "p1_connect" THEN "p1_api" ELSE "p3_api"
     ELSE /\ main_pc' = "exited"
          /\ UNCHANGED <<connections, db_connection>>
  /\ UNCHANGED <<connection, db_conn, ERROR_LOG, batch_errors,
                 validation_errors, items_table,
                 processed_items, exiting>>
  /\ exit_cause' = IF ok THEN exit_cause ELSE "connect"
  /\ UNCHANGED batch_phase
  /\ MainFrame

\* api_status = test_api_connection() and the return of
\* initialize_connections: without status 200 handle_critical_error logs and
\* exits; with it the caller binds connection (phase 1) or db_conn (phase 3)
TestApiInit(status) ==
  /\ main_pc \in {"p1_api", "p3_api"}
  /\ IF status = "200"
     THEN /\ connection' = IF main_pc = "p1_api" THEN db_connection
                           ELSE connection
          /\ db_conn' = IF main_pc = "p3_api" THEN db_connection ELSE db_conn
          /\ main_pc' = IF main_pc = "p1_api" THEN "p1_test"
                        ELSE "p3_manifest"
          /\ UNCHANGED ERROR_LOG
     ELSE /\ ERROR_LOG' = Append(ERROR_LOG, "API connection failed")
          /\ main_pc' = "exited"
          /\ UNCHANGED <<connection, db_conn>>
  /\ UNCHANGED <<connections, db_connection, batch_errors,
                 validation_errors, items_table, processed_items, exiting>>
  /\ exit_cause' = IF status = "200" THEN exit_cause ELSE "api"
  /\ UNCHANGED batch_phase
  /\ MainFrame

\* phase 1: if not test_api_connection(): sys.exit(1)
TestApiMain(status) ==
  /\ main_pc = "p1_test"
  /\ main_pc' = IF status = "200" THEN "p2" ELSE "exited"
  /\ UNCHANGED <<connections, connection, db_conn, db_connection, ERROR_LOG,
                 batch_errors, validation_errors, items_table, processed_items, exiting>>
  /\ exit_cause' = IF status = "200" THEN exit_cause ELSE "api"
  /\ UNCHANGED batch_phase
  /\ MainFrame

\* phase 2: log_error, handle_error without exit, log_batch_error (which
\* goes to BATCH_ERRORS) and safe_execute_with_logging of a division by zero
Phase2 ==
  /\ main_pc = "p2"
  /\ ERROR_LOG' = ERROR_LOG \o <<"Test error", "Test critical error",
                                 "Unhandled exception in sample_function">>
  /\ batch_errors' = batch_errors + 1
  /\ main_pc' = "p3_env"
  /\ UNCHANGED <<connections, connection, db_conn, db_connection,
                 validation_errors, items_table, processed_items, exiting>>
  /\ UNCHANGED exit_cause
  /\ UNCHANGED batch_phase
  /\ MainFrame

\* phase 3: manifest = fetch_manifest() and the test for None after it
FetchManifest(status) ==
  /\ main_pc = "p3_manifest"
  /\ IF status = "200"
     THEN main_pc' = "p3_urls" /\ UNCHANGED ERROR_LOG
     ELSE /\ main_pc' = "exited"
          /\ ERROR_LOG' =
               IF status = "401"
               THEN Append(ERROR_LOG, "Invalid API key")
               ELSE ERROR_LOG \o
                      <<IF status = "other" THEN "Manifest fetch failed"
                        ELSE "Exception occurred while fetching Manifest",
                        "Manifest fetch failed. Terminating script.">>
  /\ UNCHANGED <<connections, connection, db_conn, db_connection,
                 batch_errors, validation_errors, items_table,
                 processed_items, exiting>>
  /\ exit_cause' = IF status = "200" THEN exit_cause ELSE "manifest"
  /\ UNCHANGED batch_phase
  /\ MainFrame

\* phase 3: the five get_manifest_component_url calls and the all() test
ComponentUrls(ok) ==
  /\ main_pc = "p3_urls"
  /\ IF ok
     THEN main_pc' = "p3_fetch" /\ UNCHANGED ERROR_LOG
     ELSE /\ main_pc' = "exited"
          /\ ERROR_LOG' = ERROR_LOG \o
                            <<"Component is missing in Manifest",
                              "One or more component URLs are invalid">>
  /\ UNCHANGED <<connections, connection, db_conn, db_connection,
                 batch_errors, validation_errors, items_table,
                 processed_items, exiting>>
  /\ exit_cause' = IF ok THEN exit_cause ELSE "manifest"
  /\ UNCHANGED batch_phase
  /\ MainFrame

\* phase 3: items_table = fetch_definitions(...): None, with a log entry,
\* unless the status is 200
FetchDefinitions(ok) ==
  /\ main_pc = "p3_fetch"
  /\ items_table' = IF ok THEN "table" ELSE "None"
  /\ ERROR_LOG' = IF ok THEN ERROR_LOG
                  ELSE Append(ERROR_LOG, "Items definitions fetch failed")
  /\ main_pc' = "p3_process"
  /\ UNCHANGED <<connections, connection, db_conn, db_connection,
                 batch_errors, validation_errors, processed_items, exiting>>
  /\ UNCHANGED exit_cause
  /\ UNCHANGED batch_phase
  /\ MainFrame

\* phase 3: processed_items = process_item_data(items_table); items.items()
\* of None raises AttributeError, which nothing catches
ProcessTables(n) ==
  /\ main_pc = "p3_process"
  /\ IF items_table = "table"
     THEN processed_items' = n /\ main_pc' = "p4_connect"
     ELSE n = 0 /\ main_pc' = "crashed" /\ UNCHANGED processed_items
  /\ UNCHANGED <<connections, connection, db_conn, db_connection, ERROR_LOG,
                 batch_errors, validation_errors, items_table, exiting>>
  /\ exit_cause' = IF items_table = "table" THEN exit_cause ELSE "uncaught"
  /\ UNCHANGED batch_phase
  /\ MainFrame

\* phases 4 and 5: connection = connect_to_db() inside try; the SystemExit
\* of a failed connect passes "except Exception" and runs the finally
ConnectPhase(ok) ==
  /\ main_pc \in {"p4_connect", "p5_connect"}
  /\ IF ok
     THEN /\ connections' = Connected
          /\ connection' = Len(connections) + 1
          /\ main_pc' = IF main_pc = "p4_connect" THEN "p4_batches"
                        ELSE "p5_validate"
          /\ UNCHANGED exiting
     ELSE /\ exiting' = TRUE
          /\ main_pc' = IF main_pc = "p4_connect" THEN "p4_finally"
                        ELSE "p5_finally"
          /\ UNCHANGED <<connections, connection>>
  /\ UNCHANGED <<db_conn, db_connection, ERROR_LOG, batch_errors,
                 validation_errors, items_table, processed_items>>
  /\ exit_cause' = IF ok THEN exit_cause ELSE "connect"
  /\ UNCHANGED batch_phase
  /\ MainFrame

\* how a call in the try body of phase 4 or 5 comes back: it returns, it
\* returns having found and recorded something, or an exception leaves it
CallOutcomes == {"returned", "invalid", "reported", "raised"}

\* the call of the try body after the connect: process_items_in_batches
\* (phase 4), validate_all_items and debug_invalid_rows (phase 5). An
\* exception reaches handle_critical_error(..., exit_on_failure=True).
\*  - process_items_in_batches makes no store call for an empty list; a
\*    failed batch is recorded by log_batch_error and the call returns,
\*    unless the rollback after the log entry raises
\*  - validate_all_items writes validation_errors.txt when it finds
\*    invalid rows, and records a failed query with handle_error
CallBody(outcome) ==
  /\ main_pc \in {"p4_batches", "p5_validate", "p5_debug"}
  /\ (main_pc = "p4_batches" /\ processed_items = 0) => outcome = "returned"
  /\ main_pc = "p4_batches" => outcome # "invalid"
  /\ main_pc = "p5_debug" => outcome \in {"returned", "raised"}
  /\ IF outcome = "raised"
     THEN /\ ERROR_LOG' =
               Append(ERROR_LOG,
                      IF main_pc = "p4_batches"
                      THEN "Critical error during batch processing"
                      ELSE "Critical error during validation")
          /\ exiting' = TRUE
          /\ main_pc' = IF main_pc = "p4_batches" THEN "p4_finally"
                        ELSE "p5_finally"
          /\ batch_errors' = IF main_pc = "p4_batches" THEN batch_errors + 1
                             ELSE batch_errors
          /\ UNCHANGED validation_errors
     ELSE /\ main_pc' = IF main_pc = "p4_batches" THEN "p4_finally"
                        ELSE IF main_pc = "p5_validate" THEN "p5_debug"
                        ELSE "p5_finally"
          /\ batch_errors' =
               IF main_pc = "p4_batches" /\ outcome = "reported"
               THEN batch_errors + 1 ELSE batch_errors
          /\ ERROR_LOG' =
               IF main_pc = "p5_validate" /\ outcome = "reported"
               THEN Append(ERROR_LOG, "Error during validation")
               ELSE ERROR_LOG
          /\ validation_errors' =
               IF outcome = "invalid" THEN "written" ELSE validation_errors
          /\ UNCHANGED exiting
  /\ UNCHANGED <<connections, connection, db_conn, db_connection,
                 items_table, processed_items>>
  /\ exit_cause' = IF outcome # "raised" THEN exit_cause
                   ELSE IF main_pc = "p4_batches" THEN "batches"
                   ELSE "validation"
  /\ batch_phase' =
       IF main_pc # "p4_batches" THEN batch_phase
       ELSE IF processed_items = 0 THEN "no batch"
       ELSE IF outcome = "returned" THEN "committed" ELSE "failed"
  /\ MainFrame

\* finally: if connection: connection.close()
FinallyClose ==
  /\ main_pc \in {"p4_finally", "p5_finally"}
  /\ connections' = IF connection # 0 THEN Close(connection) ELSE connections
  /\ main_pc' = IF exiting THEN "exited"
                ELSE IF main_pc = "p4_finally" THEN "p5_connect" ELSE "ended"
  /\ UNCHANGED <<connection, db_conn, db_connection, ERROR_LOG,
                 batch_errors, validation_errors, items_table,
                 processed_items, exiting>>
  /\ UNCHANGED exit_cause
  /\ UNCHANGED batch_phase
  /\ MainFrame

MainInit ==
  /\ main_pc = "p1_env"
  /\ connections = <<>>
  /\ connection = 0
  /\ db_conn = 0
  /\ db_connection = 0
  /\ ERROR_LOG = <<>>
  /\ batch_errors = 0
  /\ validation_errors = "absent"
  /\ items_table = "unbound"
  /\ processed_items = 0
  /\ exiting = FALSE
  /\ exit_cause = ""
  /\ batch_phase = "not run"

MainNext ==
  \/ \E ok \in BOOLEAN : LoadEnv(ok)
  \/ \E ok \in BOOLEAN : ConnectInit(ok)
  \/ \E status \in ApiOutcomes : TestApiInit(status)
  \/ \E status \in ApiOutcomes : TestApiMain(status)
  \/ Phase2
  \/ \E status \in ApiOutcomes : FetchManifest(status)
  \/ \E ok \in BOOLEAN : ComponentUrls(ok)
  \/ \E ok \in BOOLEAN : FetchDefinitions(ok)
  \/ \E n \in 0..MaxProcessed : ProcessTables(n)
  \/ \E ok \in BOOLEAN : ConnectPhase(ok)
  \/ \E outcome \in CallOutcomes : CallBody(outcome)
  \/ FinallyClose

ScriptInit == LoadIdle /\ CfgIdle /\ MainInit /\ LogIdle /\ PipeIdle /\ ValIdle
  /\ OrchIdle

SpecMain == ScriptInit /\ [][MainNext]_allVars

(* ---------------- C14 ---------------- *)
\* the process is over: the last statement ran, sys.exit ended it, or an
\* uncaught exception did
ProcessEnded == main_pc \in {"ended", "exited", "crashed"}

\* C14: when the process ends, on the success path and on every failure
\* path, every connection that connect_to_db opened has been closed.
C14_ConnectionsReleased ==
  ProcessEnded => \A i \in 1..Len(connections) : ~connections[i].open

(* ---------------- the error log ---------------- *)
\* logging calls of one process
MaxLogCalls == 3

\* the texts and batch numbers the callers pass
LogMessages == {"store unreachable", "bad record"}
LogBatchNumbers == {0, 1}

\* log_entry of log_error: "[ts] CRITICAL: msg" or "[ts] ERROR: msg"
ErrorEntry(msg, is_critical) ==
  [level |-> IF is_critical THEN "CRITICAL" ELSE "ERROR", msg |-> msg]

\* log_error of either module: ERROR_LOG.append and a line appended to
\* error_log.txt
log_error(logs, msg, is_critical) ==
  [mem |-> Append(logs.mem, ErrorEntry(msg, is_critical)),
   file |-> Append(logs.file, ErrorEntry(msg, is_critical))]

LogInit ==
  /\ log_module \in {"error_handling", "ckdb"}
  /\ log_ERROR_LOG = <<>>
  /\ log_BATCH_ERRORS = <<>>
  /\ log_file = <<>>

LogFrame == UNCHANGED <<vars, cfgVars, mainVars, pipeVars, valVars, orchVars>>

\* a call of log_error(error_message, is_critical)
LogError(msg, is_critical) ==
  /\ Len(log_ERROR_LOG) + Len(log_BATCH_ERRORS) < MaxLogCalls
  /\ LET r == log_error([mem |-> log_ERROR_LOG, file |-> log_file], msg,
                        is_critical)
     IN  log_ERROR_LOG' = r.mem /\ log_file' = r.file
  /\ UNCHANGED <<log_module, log_BATCH_ERRORS>>
  /\ LogFrame

\* a call of log_batch_error(batch_number, message): error_handling appends
\* to ERROR_LOG, ckdb to BATCH_ERRORS and to the file
LogBatchError(num, msg) ==
  /\ Len(log_ERROR_LOG) + Len(log_BATCH_ERRORS) < MaxLogCalls
  /\ IF log_module = "error_handling"
     THEN LET r == log_batch_error_bp(
                     [mem |-> log_ERROR_LOG, file |-> log_file], num, msg,
                     NoError)
          IN  /\ log_ERROR_LOG' = r.mem
              /\ log_file' = r.file
              /\ UNCHANGED log_BATCH_ERRORS
     ELSE LET r == log_batch_error_ckdb(
                     [mem |-> log_BATCH_ERRORS, file |-> log_file], num, msg,
                     NoError)
          IN  /\ log_BATCH_ERRORS' = r.mem
              /\ log_file' = r.file
              /\ UNCHANGED log_ERROR_LOG
  /\ UNCHANGED log_module
  /\ LogFrame

LogNext ==
  \/ \E msg \in LogMessages, c \in BOOLEAN : LogError(msg, c)
  \/ \E num \in LogBatchNumbers, msg \in LogMessages : LogBatchError(num, msg)

LoggingInit == LoadIdle /\ CfgIdle /\ MainIdle /\ LogInit /\ PipeIdle /\ ValIdle
  /\ OrchIdle

SpecLog == LoggingInit /\ [][LogNext]_allVars

(* ---------------- C15 ---------------- *)
\* how often an entry occurs in a log
Occurrences(log, e) == Cardinality({i \in 1..Len(log) : log[i] = e})

\* the entries held in memory, of both lists
InMemory == log_ERROR_LOG \o log_BATCH_ERRORS

\* the file holds exactly the entries held in memory
DoublyRecorded ==
  /\ Len(log_file) = Len(InMemory)
  /\ \A i \in 1..Len(InMemory) :
       Occurrences(log_file, InMemory[i]) = Occurrences(InMemory, InMemory[i])

\* log a is log b with entries added at the end
Extends(a, b) == Len(a) >= Len(b) /\ SubSeq(a, 1, Len(b)) = b

\* C15: every logging call leaves the earlier entries of the in-memory log
\* and of the file as they were, and after it the file holds exactly the
\* entries held in memory.
C15_AppendOnlyDoublyRecorded ==
  [][/\ Extends(log_ERROR_LOG', log_ERROR_LOG)
     /\ Extends(log_BATCH_ERRORS', log_BATCH_ERRORS)
     /\ Extends(log_file', log_file)
     /\ DoublyRecorded']_logVars

(* ---------------- process_item_data and the load after it ---------------- *)
\* most item definitions in the fetched table
MaxSource == 2

\* a text, kept as what the scripts test of it: its length and whether it
\* is all blanks ("blank"), starts with "https://" ("https") or neither
Txt(n, k) == [len |-> n, kind |-> k]

\* len("https://www.bungie.net")
BungiePrefixLen == 22

\* f"https://www.bungie.net{icon}"
BungieUrl(icon) == Txt(BungiePrefixLen + icon.len, "https")

\* dict.get(key, default)
Get(d, key, default) == IF key \in DOMAIN d THEN d[key] ELSE default

\* a dict with no entries
EmptyDict == <<>>

\* the keys of the item table: a hash text, another one, and the empty text
SourceKeys == {"", "7", "8"}

FullDisplay == [name |-> Txt(4, "plain"), description |-> Txt(9, "plain"),
                icon |-> Txt(6, "plain")]

\* the item definitions the table is made of: a complete one, one without
\* tierTypeName, one without a name, one without inventory, one without
\* hash, one with a name only
SourceData ==
  { [displayProperties |-> FullDisplay,
     inventory |-> [tierTypeName |-> "Exotic"],
     itemCategoryHashes |-> <<1, 3>>, hash |-> 7,
     defaultDamageTypeHash |-> "1847026933"],
    [displayProperties |-> FullDisplay, inventory |-> EmptyDict, hash |-> 7],
    [displayProperties |-> [description |-> Txt(9, "plain")],
     inventory |-> [tierTypeName |-> "Rare"], hash |-> 7],
    [displayProperties |-> FullDisplay, hash |-> 7],
    [displayProperties |-> FullDisplay,
     inventory |-> [tierTypeName |-> "Rare"]],
    [displayProperties |-> [name |-> Txt(4, "plain")],
     inventory |-> EmptyDict, hash |-> 7] }

\* the keys of table t
KeysOf(t) == {t[i].key : i \in 1..Len(t)}

\* the tables of at most n definitions, each key once
RECURSIVE SourceTables(_)
SourceTables(n) ==
  IF n = 0 THEN {<<>>}
  ELSE LET shorter == SourceTables(n - 1)
       IN  shorter \cup
           UNION {{Append(t, [key |-> k, data |-> d]) :
                     k \in SourceKeys \ KeysOf(t), d \in SourceData} :
                  t \in {u \in shorter : Len(u) = n - 1}}

\* the lookups of a try body that also indexes inventory["tierTypeName"]
MissingKeyTierRequired(v, data) ==
  IF "displayProperties" \notin DOMAIN data THEN "displayProperties"
  ELSE IF "name" \notin DOMAIN data.displayProperties THEN "name"
  ELSE IF "inventory" \notin DOMAIN data THEN "inventory"
  ELSE IF "tierTypeName" \notin DOMAIN data.inventory THEN "tierTypeName"
  ELSE IF v = "ckdb" /\ "hash" \notin DOMAIN data THEN "hash"
  ELSE ""

\* the first key whose lookup raises KeyError in the try body, "" if none
MissingKey(v, data) ==
  IF "displayProperties" \notin DOMAIN data THEN "displayProperties"
  ELSE IF "name" \notin DOMAIN data.displayProperties THEN "name"
  ELSE IF "inventory" \notin DOMAIN data THEN "inventory"
  ELSE IF v = "ckdb" /\ "hash" \notin DOMAIN data THEN "hash"
  ELSE ""

category_mapping ==
  (1 :> "Weapon") @@ (20 :> "Armor") @@ (40 :> "Consumable")
  @@ (50 :> "Material") @@ (60 :> "Shader") @@ (70 :> "Emblem")
  @@ (80 :> "Quest") @@ (90 :> "Subclass") @@ (100 :> "Mod")
  @@ (110 :> "Ship") @@ (120 :> "Sparrow") @@ (130 :> "Clan Banner")
  @@ (140 :> "Emote") @@ (150 :> "Ghost") @@ (160 :> "Finishers")

subcategory_mapping ==
  (2 :> "Auto Rifle") @@ (3 :> "Hand Cannon") @@ (4 :> "Pulse Rifle")
  @@ (5 :> "Scout Rifle") @@ (6 :> "Fusion Rifle") @@ (7 :> "Sniper Rifle")
  @@ (8 :> "Shotgun") @@ (9 :> "Machine Gun") @@ (10 :> "Rocket Launcher")
  @@ (11 :> "Sidearm") @@ (12 :> "Sword") @@ (13 :> "Grenade Launcher")
  @@ (14 :> "Linear Fusion Rifle") @@ (15 :> "Trace Rifle") @@ (16 :> "Bow")
  @@ (17 :> "Glaive") @@ (21 :> "Helmet") @@ (22 :> "Gauntlets")
  @@ (23 :> "Chest Armor") @@ (24 :> "Leg Armor") @@ (25 :> "Class Item")

\* the keys are unsigned 32-bit hashes, written as text
damage_type_mapping ==
  ("3373582085" :> "Kinetic") @@ ("1847026933" :> "Arc")
  @@ ("2303181850" :> "Solar") @@ ("3454344768" :> "Void")
  @@ ("151347233" :> "Stasis") @@ ("3949783978" :> "Strand")

\* rarity.lower() == "exotic", for the tier names of the model
IsExotic(rarity) == rarity \in {"Exotic", "exotic", "EXOTIC"}

\* the dict data_processing.process_item_data appends for one item
ProcessedDp(key, data) ==
  [item_id |-> key,
   name |-> data.displayProperties.name,
   description |-> Get(data.displayProperties, "description", Txt(0, "plain")),
   rarity |-> Get(data.inventory, "tierTypeName", "Unknown"),
   category_hashes |-> Get(data, "itemCategoryHashes", <<>>),
   icon |-> BungieUrl(Get(data.displayProperties, "icon", Txt(0, "plain")))]

\* the dict ckdb's process_item_data appends for one item
ProcessedCkdb(key, data) ==
  LET category_hashes == Get(data, "itemCategoryHashes", <<>>)
      rarity == Get(data.inventory, "tierTypeName", "Unknown")
  IN  [item_id |-> key,
       name |-> data.displayProperties.name,
       description |->
         Get(data.displayProperties, "description", Txt(0, "plain")),
       rarity |-> rarity,
       category |->
         IF category_hashes = <<>> THEN "Unknown"
         ELSE Get(category_mapping, category_hashes[1], "Unknown"),
       subcategory |->
         IF Len(category_hashes) > 1
         THEN Get(subcategory_mapping, category_hashes[2], "Unknown")
         ELSE "Unknown",
       icon |-> BungieUrl(Get(data.displayProperties, "icon", Txt(0, "plain"))),
       hash_id |-> data.hash,
       is_exotic |-> IsExotic(rarity),
       is_quest_item |->
         \E i \in 1..Len(category_hashes) : category_hashes[i] = 16,
       damage_type |->
         IF "defaultDamageTypeHash" \in DOMAIN data
         THEN Get(damage_type_mapping, data.defaultDamageTypeHash, "None")
         ELSE "None"]

RECURSIVE process_item_data(_, _)
\* process_item_data(items) of script v: the list returned and the entries
\* logged, one per item whose try body raised KeyError
process_item_data(v, items) ==
  IF items = <<>> THEN [list |-> <<>>, log |-> <<>>]
  ELSE LET key == Head(items).key
           data == Head(items).data
           rest == process_item_data(v, Tail(items))
           missing == MissingKey(v, data)
       IN  IF missing = ""
           THEN [list |-> <<IF v = "ckdb" THEN ProcessedCkdb(key, data)
                            ELSE ProcessedDp(key, data)>> \o rest.list,
                 log |-> rest.log]
           ELSE [list |-> rest.list,
                 log |-> <<[item |-> key, missing |-> missing]>> \o rest.log]

PipeInit ==
  /\ source_items \in SourceTables(MaxSource)
  /\ processed_items_list = <<>>
  /\ processing_log = <<>>
  /\ pipe_pc = "fetched"

PipeFrame == UNCHANGED <<cfgVars, mainVars, logVars, valVars, orchVars>>

\* processed_items = process_item_data(items_table)
Transform ==
  /\ pipe_pc = "fetched"
  /\ processed_items_list' = process_item_data(variant, source_items).list
  /\ processing_log' = process_item_data(variant, source_items).log
  /\ pipe_pc' = "processed"
  /\ UNCHANGED <<source_items, vars>>
  /\ PipeFrame

\* process_items_in_batches(conn, processed_items) is entered
LoadStart(c) ==
  /\ pipe_pc = "processed"
  /\ pc = "idle"
  /\ Enter(c)
  /\ UNCHANGED pipeVars
  /\ PipeFrame

\* one iteration of "for item in items" over the processed list
LoadStep(fault, rbFail) ==
  /\ drawn < Len(processed_items_list)
  /\ Iterate(processed_items_list[drawn + 1], fault, rbFail)
  /\ UNCHANGED pipeVars
  /\ PipeFrame

\* the processed list is exhausted
LoadFinish(fault, rbFail) ==
  /\ drawn = Len(processed_items_list)
  /\ Exhaust(fault, rbFail)
  /\ UNCHANGED pipeVars
  /\ PipeFrame

(* ---------------- C17 ---------------- *)
\* a record of list b has the empty key
HasEmptyKey(b) == \E j \in 1..Len(b) : b[j].item_id = ""

\* C17: no record with an empty item_id is in the buffer or in a batch
\* passed to insert_batch_to_db.
C17_EmptyKeyDropped ==
  /\ ~HasEmptyKey(current_batch)
  /\ \A i \in 1..Len(calls) : ~HasEmptyKey(calls[i].batch)

(* ---------------- the validator ---------------- *)
\* most rows of a table of several rows
MaxRows == 2

\* len(name) > 255 and len(description) > 1000
NameMax == 255
DescMax == 1000

\* a NULL column value where a text is expected
NoneText == [len |-> 0, kind |-> "None"]

\* "not t" for a column value: NULL or the empty text
Falsy(t) == t.kind = "None" \/ t.len = 0

\* len(t.strip()) == 0
StripsToEmpty(t) == t.len = 0 \/ t.kind = "blank"

\* t.startswith("https://")
StartsWithHttps(t) == t.kind = "https"

\* a tier set that also admits the transformer's default
valid_rarity_with_unknown ==
  {"Common", "Uncommon", "Rare", "Legendary", "Exotic", "Unknown"}

valid_rarity == {"Common", "Uncommon", "Rare", "Legendary", "Exotic"}

\* validate_item_row with the description test off by one
validate_item_row_desc_ge(row) ==
  IF row.ItemID = "" THEN [ok |-> FALSE, log |-> <<"Invalid item_id">>]
  ELSE IF Falsy(row.Name) \/ StripsToEmpty(row.Name)
          \/ row.Name.len > NameMax
  THEN [ok |-> FALSE, log |-> <<"Invalid name">>]
  ELSE IF ~Falsy(row.Description) /\ row.Description.len >= DescMax
  THEN [ok |-> FALSE, log |-> <<"Description too long">>]
  ELSE IF ~Falsy(row.ImageURL) /\ ~StartsWithHttps(row.ImageURL)
  THEN [ok |-> FALSE, log |-> <<"Invalid icon URL">>]
  ELSE IF row.Rarity \notin valid_rarity
  THEN [ok |-> FALSE, log |-> <<"Invalid rarity">>]
  ELSE [ok |-> TRUE, log |-> <<>>]

\* validation.validate_item_row(row): the result and the message it logs.
\* ItemID is a text here (the keys of the item table), so the isinstance
\* test passes and "not item_id" is the test for the empty text.
validate_item_row_validation(row) ==
  IF row.ItemID = "" THEN [ok |-> FALSE, log |-> <<"Invalid item_id">>]
  ELSE IF Falsy(row.Name) \/ StripsToEmpty(row.Name)
          \/ row.Name.len > NameMax
  THEN [ok |-> FALSE, log |-> <<"Invalid name">>]
  ELSE IF ~Falsy(row.Description) /\ row.Description.len > DescMax
  THEN [ok |-> FALSE, log |-> <<"Description too long">>]
  ELSE IF ~Falsy(row.ImageURL) /\ ~StartsWithHttps(row.ImageURL)
  THEN [ok |-> FALSE, log |-> <<"Invalid icon URL">>]
  ELSE IF row.Rarity \notin valid_rarity
  THEN [ok |-> FALSE, log |-> <<"Invalid rarity">>]
  ELSE [ok |-> TRUE, log |-> <<>>]

\* ckdb validate_item_row(row): no blank-name test, no tier set, no logging
validate_item_row_ckdb(row) ==
  IF row.ItemID = "" \/ Falsy(row.Name) \/ row.Rarity \in {"", None}
  THEN [ok |-> FALSE, log |-> <<>>]
  ELSE IF row.Name.len > NameMax THEN [ok |-> FALSE, log |-> <<>>]
  ELSE IF ~Falsy(row.Description) /\ row.Description.len > DescMax
  THEN [ok |-> FALSE, log |-> <<>>]
  ELSE IF ~Falsy(row.ImageURL) /\ ~StartsWithHttps(row.ImageURL)
  THEN [ok |-> FALSE, log |-> <<>>]
  ELSE [ok |-> TRUE, log |-> <<>>]

validate_item_row(v, row) ==
  IF v = "ckdb" THEN validate_item_row_ckdb(row)
  ELSE validate_item_row_validation(row)

RECURSIVE ValidateRows(_, _)
\* the loop over rows: invalid_rows in read order and the entries
\* validate_item_row logged
ValidateRows(v, rows) ==
  IF rows = <<>> THEN [invalid_rows |-> <<>>, log |-> <<>>]
  ELSE LET r == validate_item_row(v, Head(rows))
           rest == ValidateRows(v, Tail(rows))
       IN  [invalid_rows |-> IF r.ok THEN rest.invalid_rows
                             ELSE <<Head(rows)>> \o rest.invalid_rows,
            log |-> r.log \o rest.log]

\* the store calls a validation can fail at
ValFaults == {"none", "cursor", "execute", "fetchall"}

\* the body after the rows were fetched: the report is opened with "w" and
\* written only when invalid_rows is not empty
ReportAfter(report, invalid_rows) ==
  IF invalid_rows # <<>> THEN [exists |-> TRUE, lines |-> invalid_rows]
  ELSE report

\* the calls made on the connection up to the failing one
StoreCalls(fault) ==
  IF fault = "cursor" THEN <<"cursor">>
  ELSE IF fault = "execute" THEN <<"cursor", "execute SELECT">>
  ELSE <<"cursor", "execute SELECT", "fetchall">>

\* validation.validate_all_items(conn): handle_critical_error exits for a
\* None conn; conn.cursor() is called before the try; an exception of
\* execute or fetchall is logged; finally closes the cursor
validate_all_items_validation(c, rows, fault, report) ==
  IF c = None
  THEN [pc |-> "exited", failed |-> TRUE, invalid_rows |-> <<>>,
        log |-> <<"Database connection is None.">>, ops |-> <<>>,
        report |-> report]
  ELSE IF fault = "cursor"
  THEN [pc |-> "raised", failed |-> TRUE, invalid_rows |-> <<>>,
        log |-> <<>>, ops |-> StoreCalls(fault), report |-> report]
  ELSE IF fault # "none"
  THEN [pc |-> "returned", failed |-> TRUE, invalid_rows |-> <<>>,
        log |-> <<"Validation failed">>,
        ops |-> Append(StoreCalls(fault), "cursor.close"),
        report |-> report]
  ELSE LET r == ValidateRows("validation", rows)
       IN  [pc |-> "returned", failed |-> FALSE,
            invalid_rows |-> r.invalid_rows, log |-> r.log,
            ops |-> Append(StoreCalls(fault), "cursor.close"),
            report |-> ReportAfter(report, r.invalid_rows)]

\* ckdb validate_all_items(conn): handle_critical_error exits for a None
\* conn; conn.cursor() is inside the try, so when it raises handle_error
\* logs and the finally clause reads the unbound cur (UnboundLocalError)
validate_all_items_ckdb(c, rows, fault, report) ==
  IF c = None
  THEN [pc |-> "exited", failed |-> TRUE, invalid_rows |-> <<>>,
        log |-> <<"Database connection is None. Cannot validate items.">>,
        ops |-> <<>>, report |-> report]
  ELSE IF fault = "cursor"
  THEN [pc |-> "raised", failed |-> TRUE, invalid_rows |-> <<>>,
        log |-> <<"Error during validation">>, ops |-> StoreCalls(fault),
        report |-> report]
  ELSE IF fault # "none"
  THEN [pc |-> "returned", failed |-> TRUE, invalid_rows |-> <<>>,
        log |-> <<"Error during validation">>,
        ops |-> Append(StoreCalls(fault), "cursor.close"),
        report |-> report]
  ELSE LET r == ValidateRows("ckdb", rows)
       IN  [pc |-> "returned", failed |-> FALSE,
            invalid_rows |-> r.invalid_rows, log |-> r.log,
            ops |-> Append(StoreCalls(fault), "cursor.close"),
            report |-> ReportAfter(report, r.invalid_rows)]

validate_all_items(v, c, rows, fault, report) ==
  IF v = "ckdb" THEN validate_all_items_ckdb(c, rows, fault, report)
  ELSE validate_all_items_validation(c, rows, fault, report)

\* a row of the Items table
StoredRow(id, name, description, rarity, icon) ==
  [ItemID |-> id, Name |-> name, Description |-> description,
   Rarity |-> rarity, ImageURL |-> icon]

\* column values at and around every limit the rules test
ProbeNames == {NoneText, Txt(0, "plain"), Txt(3, "blank"), Txt(NameMax, "plain"),
               Txt(NameMax + 1, "plain")}
ProbeDescriptions == {NoneText, Txt(0, "plain"), Txt(DescMax, "plain"),
                      Txt(DescMax + 1, "plain")}
ProbeIcons == {NoneText, Txt(0, "plain"), Txt(6, "plain"), Txt(28, "https")}
ProbeRarities == valid_rarity \cup {"Unknown", "", None}

ProbeRows ==
  {StoredRow(id, n, d, r, i) : id \in {"", "7"}, n \in ProbeNames,
     d \in ProbeDescriptions, r \in ProbeRarities, i \in ProbeIcons}

\* four stored rows with their own keys: a valid one at the description
\* limit, one past it, one with a blank name, one with the default tier
StoredRows ==
  { StoredRow("1", Txt(4, "plain"), Txt(DescMax, "plain"), "Legendary",
              Txt(28, "https")),
    StoredRow("2", Txt(4, "plain"), Txt(DescMax + 1, "plain"), "Legendary",
              Txt(28, "https")),
    StoredRow("3", Txt(3, "blank"), Txt(9, "plain"), "Rare",
              Txt(28, "https")),
    StoredRow("4", Txt(4, "plain"), Txt(9, "plain"), "Unknown",
              Txt(28, "https")) }

\* the ItemID values of table t
IdsOf(t) == {t[i].ItemID : i \in 1..Len(t)}

\* the tables of at most n of the stored rows, each key once, in any order
RECURSIVE StoredTables(_)
StoredTables(n) ==
  IF n = 0 THEN {<<>>}
  ELSE LET shorter == StoredTables(n - 1)
       IN  shorter \cup
           UNION {{Append(t, row) :
                     row \in {x \in StoredRows : x.ItemID \notin IdsOf(t)}} :
                  t \in {u \in shorter : Len(u) = n - 1}}

ValInit ==
  /\ val_variant \in {"validation", "ckdb"}
  /\ items_rows \in StoredTables(MaxRows) \cup {<<row>> : row \in ProbeRows}
  /\ validation_report = [exists |-> FALSE, lines |-> <<>>]
  /\ val_ERROR_LOG = <<>>
  /\ val_pc = "idle"
  /\ val_last = [conn |-> "None", rows |-> <<>>, failed |-> FALSE,
                 invalid_rows |-> <<>>, logged |-> <<>>, ops |-> <<>>]
  /\ val_runs = 0

ValFrame == UNCHANGED <<vars, cfgVars, mainVars, logVars, pipeVars, orchVars>>

\* one call validate_all_items(conn)
Run(c, fault) ==
  LET r == validate_all_items(val_variant, c, items_rows, fault,
                              validation_report)
  IN  /\ c = None => fault = "none"
      /\ val_pc' = r.pc
      /\ val_ERROR_LOG' = val_ERROR_LOG \o r.log
      /\ validation_report' = r.report
      /\ val_last' = [conn |-> c, rows |-> items_rows, failed |-> r.failed,
                      invalid_rows |-> r.invalid_rows, logged |-> r.log,
                      ops |-> r.ops]
      /\ val_runs' = val_runs + 1
      /\ UNCHANGED <<val_variant, items_rows>>
      /\ ValFrame

\* the first validation of the process
Validate(c, fault) == val_pc = "idle" /\ val_runs = 0 /\ Run(c, fault)

\* a second validation, after the first returned
Revalidate(c, fault) == val_pc = "returned" /\ val_runs = 1 /\ Run(c, fault)

\* between two validations the operator removes the rows the first one
\* found invalid
OperatorCorrects ==
  /\ val_pc = "returned" /\ val_runs = 1
  /\ val_last.invalid_rows # <<>>
  /\ items_rows' = SelectSeq(items_rows,
                             LAMBDA row : \A i \in 1..Len(val_last.invalid_rows) :
                                            val_last.invalid_rows[i] # row)
  /\ UNCHANGED <<val_variant, validation_report, val_ERROR_LOG, val_pc,
                 val_last, val_runs>>
  /\ ValFrame

ValNext ==
  \/ \E c \in {None, Open}, fault \in ValFaults : Validate(c, fault)
  \/ \E c \in {None, Open}, fault \in ValFaults : Revalidate(c, fault)
  \/ OperatorCorrects

ValidationInit == LoadIdle /\ CfgIdle /\ MainIdle /\ LogIdle /\ PipeIdle /\ ValInit
  /\ OrchIdle

SpecValidate == ValidationInit /\ [][ValNext]_allVars

\* the pipeline: transform, load, then validate what was loaded
\* the orders in which SELECT without ORDER BY may return the rows of table t
ReadOrders(t) ==
  {[i \in 1..Len(order) |-> t[order[i]]] :
     order \in {o \in [1..Cardinality(DOMAIN t) -> DOMAIN t] :
                  \A i, j \in DOMAIN o : i # j => o[i] # o[j]}}

\* the validation script run after the load ended: validate_all_items(conn)
\* over the rows the load committed
ValidateLoaded(c, fault) ==
  /\ pc \in {"done", "raised"}
  /\ val_pc = "idle"
  /\ c = None => fault = "none"
  /\ \E rows \in ReadOrders(db.store) :
       LET v == IF variant = "ckdb" THEN "ckdb" ELSE "validation"
           r == validate_all_items(v, c, rows, fault, validation_report)
       IN  /\ val_variant' = v
           /\ items_rows' = rows
           /\ val_pc' = r.pc
           /\ val_ERROR_LOG' = val_ERROR_LOG \o r.log
           /\ validation_report' = r.report
           /\ val_last' = [conn |-> c, rows |-> rows, failed |-> r.failed,
                           invalid_rows |-> r.invalid_rows, logged |-> r.log,
                           ops |-> r.ops]
           /\ val_runs' = val_runs + 1
  /\ UNCHANGED <<vars, pipeVars, cfgVars, mainVars, logVars, orchVars>>

PipeNext ==
  \/ Transform
  \/ \E c \in {None, Open} : LoadStart(c)
  \/ \E fault \in AllFaults, rbFail \in BOOLEAN : LoadStep(fault, rbFail)
  \/ \E fault \in AllFaults, rbFail \in BOOLEAN : LoadFinish(fault, rbFail)
  \/ \E c \in {None, Open}, fault \in ValFaults : ValidateLoaded(c, fault)

PipelineInit == Init /\ CfgIdle /\ MainIdle /\ LogIdle /\ PipeInit /\ ValIdle
  /\ OrchIdle

SpecPipeline == PipelineInit /\ [][PipeNext]_allVars

(* ---------------- C18 ---------------- *)
\* a column value is absent: NULL or the empty text
Absent(t) == t.kind = "None" \/ t.len = 0

\* the rules as the claim states them
Accepts(row) ==
  /\ row.ItemID # ""
  /\ ~Absent(row.Name) /\ row.Name.kind # "blank" /\ row.Name.len <= 255
  /\ Absent(row.Description) \/ row.Description.len <= 1000
  /\ Absent(row.ImageURL) \/ row.ImageURL.kind = "https"
  /\ row.Rarity \in {"Common", "Uncommon", "Rare", "Legendary", "Exotic"}

RECURSIVE Rejected(_)
\* the rows of a table that break a rule, in read order
Rejected(rows) ==
  IF rows = <<>> THEN <<>>
  ELSE IF Accepts(Head(rows)) THEN Rejected(Tail(rows))
  ELSE <<Head(rows)>> \o Rejected(Tail(rows))

\* a validation of validation.py that read the table and returned
CompletedValidation ==
  val_variant = "validation" /\ val_pc = "returned" /\ ~val_last.failed

\* C18: the violation list of validation.validate_all_items holds exactly
\* the rows read that break a rule (empty key, blank or over-long name,
\* description over 1000, icon without https://, tier outside the five
\* names), each once and in read order.
C18_ValidatorRules ==
  CompletedValidation => val_last.invalid_rows = Rejected(val_last.rows)

\* a table with a valid Legendary row at description length 1000 before a
\* row at length 1001 was validated, and only the second row was listed
C18_Witness ==
  /\ CompletedValidation
  /\ Len(val_last.rows) = 2
  /\ val_last.rows[1].Description.len = 1000
  /\ val_last.rows[1].Rarity = "Legendary"
  /\ val_last.rows[2].Description.len = 1001
  /\ val_last.invalid_rows = <<val_last.rows[2]>>

(* ---------------- C19 ---------------- *)
\* the calls that read from the store
ReadOnlyCalls == {"cursor", "execute SELECT", "fetchall", "cursor.close"}

\* C19: every call of validate_all_items returns to its caller, with the
\* failure logged when the connection was None or a store call failed, and
\* the only calls it makes on the store are reads.
C19_ValidatorNeverCrashes ==
  val_pc # "idle" =>
    /\ val_pc = "returned"
    /\ val_last.failed => val_last.logged # <<>>
    /\ \A i \in 1..Len(val_last.ops) : val_last.ops[i] \in ReadOnlyCalls

(* ---------------- C20 ---------------- *)
\* the rows validation_errors.txt lists
ReportLines ==
  IF validation_report.exists THEN validation_report.lines ELSE <<>>

\* C20: after a validation that read the table and returned,
\* validation_errors.txt lists exactly the rows that validation found
\* invalid.
C20_ReportOverwritten ==
  (val_pc = "returned" /\ ~val_last.failed) =>
    ReportLines = val_last.invalid_rows

(* ---------------- C21 ---------------- *)
\* the item has the fields the transformation requires
HasRequiredFields(v, data) ==
  /\ "displayProperties" \in DOMAIN data
  /\ "name" \in DOMAIN data.displayProperties
  /\ "inventory" \in DOMAIN data
  /\ v = "ckdb" => "hash" \in DOMAIN data

RECURSIVE KeysWith(_, _, _)
\* the keys of the items of table t that have (want = TRUE) or lack the
\* required fields, in source order
KeysWith(v, t, want) ==
  IF t = <<>> THEN <<>>
  ELSE (IF HasRequiredFields(v, Head(t).data) = want THEN <<Head(t).key>>
        ELSE <<>>) \o KeysWith(v, Tail(t), want)

ExitStatus == IF main_pc = "ended" THEN 0 ELSE 1

\* C22: a process that ended with failed batches and no failure other than
\* theirs has status 0; a process ended by a missing environment variable
\* or a failed connect_to_db has a non-zero status and submitted no batch.
C22_ExitStatus ==
  ProcessEnded =>
    /\ (batch_phase = "failed" /\ exit_cause \in {"", "batches"})
         => ExitStatus = 0
    /\ exit_cause \in {"environment", "connect"}
         => ExitStatus # 0 /\ batch_phase \in {"not run", "no batch"}

(* ---------------- C23 ---------------- *)
\* how often operation name occurs in the operations of a call
Times(opsSeq, name) ==
  Cardinality({i \in 1..Len(opsSeq) : opsSeq[i] = name})

\* the calls of batch_processing.insert_batch_to_db made with a connection
ConnectedBpCalls ==
  {i \in 1..Len(calls) : variant = "bp" /\ calls[i].conn # None}

\* C23: in every call of batch_processing.insert_batch_to_db with a
\* connection, commit is attempted only as the operation after the cursor
\* and one execute per record; rollback is called, once and as the last
\* operation, exactly when the try block raised, with the log entry written
\* just before it; a committed call has no rollback.
C23_CommitRollbackDiscipline ==
  \A i \in ConnectedBpCalls :
    LET c == calls[i]
        n == Len(c.ops)
    IN  /\ Has(c.ops, "commit") =>
             /\ Times(c.ops, "commit") = 1
             /\ Times(c.ops, "execute") = Len(c.batch)
             /\ c.ops[Len(c.batch) + 2] = "commit"
             /\ SubSeq(c.ops, 1, Len(c.batch) + 1)
                  = <<"cursor">> \o [k \in 1..Len(c.batch) |-> "execute"]
        /\ Has(c.ops, "rollback") <=> c.err # NoError
        /\ Has(c.ops, "rollback") =>
             /\ Times(c.ops, "rollback") = 1
             /\ c.ops[n] = "rollback" /\ c.ops[n - 1] = "log"
             /\ Len(c.logged) = 1
        /\ ~(c.outcome = "committed" /\ Has(c.ops, "rollback"))
        /\ c.outcome = "committed" => c.ops[n] = "commit" /\ c.err = NoError

\* a call with a connection executed both records of its batch, the commit
\* raised, the error was logged and the transaction rolled back
C23_Witness ==
  \E i \in ConnectedBpCalls :
    /\ Len(calls[i].batch) = 2
    /\ calls[i].ops = <<"cursor", "execute", "execute", "commit", "log",
                        "rollback">>
    /\ calls[i].err = DbError

(* ---------------- run_ck_setup.py ---------------- *)
\* largest return code of a child explored
MaxStatus == 2

scripts == <<"CodexKeep/scripts/env_setup.py",
             "CodexKeep/scripts/data_fetching.py",
             "CodexKeep/scripts/data_processing.py",
             "CodexKeep/scripts/batch_processing.py",
             "CodexKeep/scripts/validation.py">>

\* what a child writes to its captured stderr
ChildStderr == {"", "Traceback"}

\* subprocess.run that hands back a zero return code whatever the child's
CheckFalseLosingStatus(returncode, stderr) ==
  [raises |-> FALSE, result |-> [returncode |-> 0, stderr |-> stderr]]

\* subprocess.run(..., capture_output=True, text=True, check=True) once the
\* child has exited: CalledProcessError for a non-zero return code, else the
\* CompletedProcess
CheckedRun(returncode, stderr) ==
  [raises |-> returncode # 0,
   result |-> [returncode |-> returncode, stderr |-> stderr]]

OrchInit ==
  /\ orch_pc = "announce"
  /\ orch_index = 1
  /\ orch_result = [returncode |-> 0, stderr |-> ""]
  /\ orch_started = <<>>
  /\ orch_exits = <<>>
  /\ orch_output = <<>>

OrchFrame ==
  UNCHANGED <<vars, cfgVars, mainVars, logVars, pipeVars, valVars>>

\* print(f"[INFO] Running {script}...")
Announce ==
  /\ orch_pc = "announce"
  /\ orch_output' = Append(orch_output, <<"Running", scripts[orch_index]>>)
  /\ orch_pc' = "run"
  /\ UNCHANGED <<orch_index, orch_result, orch_started, orch_exits>>
  /\ OrchFrame

\* subprocess.run starts python3 on the script; when python3 cannot be
\* started the OSError ends the orchestrator
Launch(ok) ==
  /\ orch_pc = "run"
  /\ IF ok
     THEN /\ orch_started' = Append(orch_started, scripts[orch_index])
          /\ orch_pc' = "child"
     ELSE /\ orch_pc' = "crashed"
          /\ UNCHANGED orch_started
  /\ UNCHANGED <<orch_index, orch_result, orch_exits, orch_output>>
  /\ OrchFrame

\* the child exits and subprocess.run returns or raises
ChildExits(returncode, stderr) ==
  /\ orch_pc = "child"
  /\ orch_exits' = Append(orch_exits,
                          [returncode |-> returncode, stderr |-> stderr])
  /\ LET r == CheckedRun(returncode, stderr)
     IN  IF r.raises
         THEN orch_pc' = "crashed" /\ UNCHANGED orch_result
         ELSE orch_pc' = "check" /\ orch_result' = r.result
  /\ UNCHANGED <<orch_index, orch_started, orch_output>>
  /\ OrchFrame

\* if result.returncode != 0: print and break; else print, and the loop
\* takes the next script or ends
CheckResult ==
  /\ orch_pc = "check"
  /\ IF orch_result.returncode # 0
     THEN /\ orch_output' =
               Append(orch_output, <<"failed", scripts[orch_index]>>)
          /\ orch_pc' = "done"
          /\ UNCHANGED orch_index
     ELSE /\ orch_output' =
               Append(orch_output, <<"completed", scripts[orch_index]>>)
          /\ IF orch_index < Len(scripts)
             THEN orch_index' = orch_index + 1 /\ orch_pc' = "announce"
             ELSE orch_pc' = "done" /\ UNCHANGED orch_index
  /\ UNCHANGED <<orch_result, orch_started, orch_exits>>
  /\ OrchFrame

OrchNext ==
  \/ Announce
  \/ \E ok \in BOOLEAN : Launch(ok)
  \/ \E returncode \in 0..MaxStatus, stderr \in ChildStderr :
       ChildExits(returncode, stderr)
  \/ CheckResult

OrchestratorInit ==
  LoadIdle /\ CfgIdle /\ MainIdle /\ LogIdle /\ PipeIdle /\ ValIdle /\ OrchInit

SpecOrchestrator == OrchestratorInit /\ [][OrchNext]_allVars

(* ---------------- C24 ---------------- *)
\* C24: the scripts started are the first ones of the list, in its order;
\* at most one child has not exited; every script started before the last
\* one exited with status 0, so none is started after a non-zero exit.
C24_OrchestratorOrdering ==
  /\ Len(orch_started) <= Len(scripts)
  /\ orch_started = SubSeq(scripts, 1, Len(orch_started))
  /\ Len(orch_exits) \in {Len(orch_started) - 1, Len(orch_started)}
  /\ \A k \in 1..(Len(orch_started) - 1) : orch_exits[k].returncode = 0

\* the third script exited with a non-zero status after two that exited
\* with 0, and the orchestrator is over with three scripts started
C24_Witness ==
  /\ orch_pc \in {"done", "crashed"}
  /\ Len(orch_started) = 3
  /\ Len(orch_exits) = 3
  /\ orch_exits[3].returncode # 0

(* ---------------- C25 ---------------- *)
\* item definition data has the fields data_processing.py requires and no
\* tierTypeName
LacksTier(data) ==
  /\ HasRequiredFields("bp", data)
  /\ "tierTypeName" \notin DOMAIN data.inventory

\* sequence rows holds a row of key k with rarity r
HoldsRow(rows, k, r) ==
  \E i \in 1..Len(rows) : rows[i].ItemID = k /\ rows[i].Rarity = r

====
